---------------------------- MODULE Spec2Model ----------------------------
(***************************************************************************)
(* Model of releng/generate-tests/main.go: the compiler that turns the     *)
(* axis-based job configuration into Prow periodics and testgrid groups.   *)
(*                                                                         *)
(* Strings are TLA+ strings; the Go string functions the program calls are *)
(* defined below on them, character by character.  Go slices are modelled  *)
(* as sequences, Go maps as functions, Go structs as records.              *)
(***************************************************************************)
EXTENDS Integers, Sequences, FiniteSets, TLC

VARIABLES
    \* ---- applyJobOverrides exercised on its own (SpecOverride)
    envsOrArgs,      \* the base list handed to applyJobOverrides
    jobEnvsOrArgs,   \* the override list handed to applyJobOverrides
    applied,         \* applyJobOverrides(envsOrArgs, jobEnvsOrArgs)
    reapplied,       \* applyJobOverrides(applied, jobEnvsOrArgs)
    \* ---- main (Spec)
    config,          \* the ConfigFile read by getYamlConfig
    jobNames,        \* main's sorted jobNames
    idx,             \* position of main's loop in jobNames (1-based)
    jobConfig,       \* forEachJob's local jobConfig after generate()
    prowConfig,      \* forEachJob's local prowConfig after generate()
    testgrid,        \* forEachJob's local testgridConfig after generate()
    outputConfig,    \* main's outputConfig.Periodics
    testgridConfig,  \* main's testgridConfig.TestGroups
    written,         \* what SaveConfigsToFile was handed, NoFile before
    pc               \* position of the run

vars == <<envsOrArgs, jobEnvsOrArgs, applied, reapplied, config, jobNames, idx,
          jobConfig, prowConfig, testgrid, outputConfig, testgridConfig,
          written, pc>>

overrideVars == <<envsOrArgs, jobEnvsOrArgs, applied, reapplied>>
mainVars == <<config, jobNames, idx, jobConfig, prowConfig, testgrid,
              outputConfig, testgridConfig, written>>

-----------------------------------------------------------------------------
(* Bounds of the model *)

\* longest base list handed to applyJobOverrides in SpecOverride
MaxBase == 2
\* longest override list handed to applyJobOverrides in SpecOverride
MaxOver == 2
\* most jobs of one configuration in the batch configurations of Spec
MaxJobs == 2

-----------------------------------------------------------------------------
(* Go's strings package, as far as the program uses it *)

\* unicode.IsSpace restricted to the ASCII characters that occur in arguments
Whitespace == {" ", "\t", "\n", "\r"}

\* strings.HasPrefix(s, prefix)
HasPrefix(s, prefix) ==
    /\ Len(s) >= Len(prefix)
    /\ SubSeq(s, 1, Len(prefix)) = prefix

\* strings.Index(s, sub), 1-based; 0 when sub does not occur in s
Index(s, sub) ==
    LET at == {i \in 1..(Len(s) - Len(sub) + 1) :
                    SubSeq(s, i, i + Len(sub) - 1) = sub}
    IN  IF at = {} THEN 0 ELSE CHOOSE i \in at : \A j \in at : i <= j

\* strings.Contains(s, sub)
Contains(s, sub) == Index(s, sub) # 0

\* strings.Split(s, sep) for a non-empty sep
RECURSIVE Split(_, _)
Split(s, sep) ==
    LET i == Index(s, sep)
    IN  IF i = 0
        THEN <<s>>
        ELSE <<SubSeq(s, 1, i - 1)>> \o Split(SubSeq(s, i + Len(sep), Len(s)), sep)

\* strings.SplitN(s, sep, 2)
SplitN2(s, sep) ==
    LET i == Index(s, sep)
    IN  IF i = 0
        THEN <<s>>
        ELSE <<SubSeq(s, 1, i - 1), SubSeq(s, i + Len(sep), Len(s))>>

RECURSIVE TrimLeft(_)
TrimLeft(s) ==
    IF Len(s) > 0 /\ SubSeq(s, 1, 1) \in Whitespace
    THEN TrimLeft(SubSeq(s, 2, Len(s)))
    ELSE s

RECURSIVE TrimRight(_)
TrimRight(s) ==
    IF Len(s) > 0 /\ SubSeq(s, Len(s), Len(s)) \in Whitespace
    THEN TrimRight(SubSeq(s, 1, Len(s) - 1))
    ELSE s

\* strings.TrimSpace(s)
TrimSpace(s) == TrimRight(TrimLeft(s))

\* strings.Replace(s, old, new, -1) for a non-empty old
RECURSIVE ReplaceAll(_, _, _)
ReplaceAll(s, old, new) ==
    LET i == Index(s, old)
    IN  IF i = 0
        THEN s
        ELSE SubSeq(s, 1, i - 1) \o new
                 \o ReplaceAll(SubSeq(s, i + Len(old), Len(s)), old, new)

\* strings.Join(elems, sep)
RECURSIVE Join(_, _)
Join(elems, sep) ==
    IF Len(elems) = 0 THEN ""
    ELSE IF Len(elems) = 1 THEN elems[1]
    ELSE elems[1] \o sep \o Join(Tail(elems), sep)

-----------------------------------------------------------------------------
(* applyJobOverrides *)

\* FirstMatch without the name= test of line 171
RECURSIVE FirstMatchExact(_, _)
FirstMatchExact(originalEnvsOrArgs, name) ==
    IF Len(originalEnvsOrArgs) = 0 THEN ""
    ELSE IF TrimSpace(Head(originalEnvsOrArgs)) = name
         THEN Head(originalEnvsOrArgs)
         ELSE FirstMatchExact(Tail(originalEnvsOrArgs), name)

\* the inner loop of lines 169-175: the first entry of the original list whose
\* trimmed text is name or starts with name=, "" (envOrArg's zero value) if none
RECURSIVE FirstMatch(_, _)
FirstMatch(originalEnvsOrArgs, name) ==
    IF Len(originalEnvsOrArgs) = 0 THEN ""
    ELSE LET val == Head(originalEnvsOrArgs)
             trimVal == TrimSpace(val)
         IN  IF HasPrefix(trimVal, name \o "=") \/ trimVal = name
             THEN val
             ELSE FirstMatch(Tail(originalEnvsOrArgs), name)

\* the loop of lines 177-182: list without its first element equal to v
RECURSIVE RemoveFirst(_, _)
RemoveFirst(list, v) ==
    IF Len(list) = 0 THEN <<>>
    ELSE IF Head(list) = v THEN Tail(list)
    ELSE <<Head(list)>> \o RemoveFirst(Tail(list), v)

\* OverrideStep without the removal of lines 176-183
OverrideStepKeep(current, originalEnvsOrArgs, jobEnvOrArg) ==
    Append(current, jobEnvOrArg)

\* one iteration of the loop of line 166
OverrideStep(current, originalEnvsOrArgs, jobEnvOrArg) ==
    LET name == Split(jobEnvOrArg, "=")[1]
        envOrArg == FirstMatch(originalEnvsOrArgs, name)
        kept == IF envOrArg # "" THEN RemoveFirst(current, envOrArg) ELSE current
    IN  Append(kept, jobEnvOrArg)

RECURSIVE OverrideLoop(_, _, _)
OverrideLoop(current, originalEnvsOrArgs, overrides) ==
    IF Len(overrides) = 0 THEN current
    ELSE OverrideLoop(OverrideStep(current, originalEnvsOrArgs, Head(overrides)),
                      originalEnvsOrArgs, Tail(overrides))

applyJobOverrides(base, overrides) == OverrideLoop(base, base, overrides)

-----------------------------------------------------------------------------
(* Go's strconv and slices packages, as far as the program uses them *)

Digits == "0123456789"

IsDigit(c) == Index(Digits, c) # 0

\* the value of a non-empty string of decimal digits
RECURSIVE DigitsValue(_)
DigitsValue(s) ==
    IF Len(s) = 0 THEN 0
    ELSE 10 * DigitsValue(SubSeq(s, 1, Len(s) - 1))
             + (Index(Digits, SubSeq(s, Len(s), Len(s))) - 1)

\* strconv.Atoi(s): an optional sign and at least one decimal digit; err is
\* Atoi's error, val its int (0 with an error).  The values of the model stay
\* far below the 64-bit range, whose overflow is Atoi's other error.
Atoi(s) ==
    LET signed == Len(s) > 0 /\ SubSeq(s, 1, 1) \in {"+", "-"}
        body == IF signed THEN SubSeq(s, 2, Len(s)) ELSE s
        wellFormed == /\ Len(body) > 0
                      /\ \A i \in 1..Len(body) : IsDigit(SubSeq(body, i, i))
    IN  IF ~wellFormed THEN [err |-> TRUE, val |-> 0]
        ELSE [err |-> FALSE,
              val |-> IF signed /\ SubSeq(s, 1, 1) = "-"
                      THEN 0 - DigitsValue(body) ELSE DigitsValue(body)]

RECURSIVE NatToStr(_)
NatToStr(n) ==
    IF n < 10 THEN SubSeq(Digits, n + 1, n + 1)
    ELSE NatToStr(n \div 10) \o SubSeq(Digits, (n % 10) + 1, (n % 10) + 1)

\* strconv.Itoa(n), also fmt's %v of an int
Itoa(n) == IF n < 0 THEN "-" \o NatToStr(0 - n) ELSE NatToStr(n)

\* the characters of the job names, in byte order
ByteOrder == "-0123456789abcdefghijklmnopqrstuvwxyz"

\* a < b for Go strings: byte-wise lexicographic
RECURSIVE StringLess(_, _)
StringLess(a, b) ==
    IF Len(b) = 0 THEN FALSE
    ELSE IF Len(a) = 0 THEN TRUE
    ELSE IF SubSeq(a, 1, 1) = SubSeq(b, 1, 1)
         THEN StringLess(SubSeq(a, 2, Len(a)), SubSeq(b, 2, Len(b)))
         ELSE Index(ByteOrder, SubSeq(a, 1, 1)) < Index(ByteOrder, SubSeq(b, 1, 1))

\* the names in descending order
RECURSIVE SortDescending(_)
SortDescending(names) ==
    IF names = {} THEN <<>>
    ELSE LET top == CHOOSE n \in names : \A m \in names \ {n} : StringLess(m, n)
         IN  <<top>> \o SortDescending(names \ {top})

\* lines 77-81: the keys of config.Jobs, collected in map order and sorted by
\* slices.Sort
RECURSIVE SortedJobNames(_)
SortedJobNames(names) ==
    IF names = {} THEN <<>>
    ELSE LET least == CHOOSE n \in names : \A m \in names \ {n} : StringLess(n, m)
         IN  <<least>> \o SortedJobNames(names \ {least})

-----------------------------------------------------------------------------
(* The data model: lines 530-678 *)

GCSLOGPREFIX == "kubernetes-jenkins/logs/"

\* the zero values Go gives absent map keys and unset fields
NoComputeResources == [CPU |-> "", Memory |-> ""]
NoResources == [Requests |-> NoComputeResources, Limits |-> NoComputeResources]
NoCloudProvider == [Args |-> <<>>]
NoImage == [Args |-> <<>>, TestgridPrefix |-> ""]
NoK8SVersion == [Args |-> <<>>, Version |-> ""]
NoNodeK8SVersion == [Args |-> <<>>, ProwImage |-> ""]
NoTestSuite == [Args |-> <<>>, Resources |-> NoResources, Cluster |-> ""]
NoTestGroup == [Name |-> "", GCSPrefix |-> "", ColumnHeader |-> <<>>]
NoAnnotations == <<>>

\* m[key] of a Go map: the zero value for an absent key
MapGet(m, key, zero) == IF key \in DOMAIN m THEN m[key] ELSE zero

\* m with m[key] = value
MapPut(m, key, value) ==
    [k \in DOMAIN m \cup {key} |-> IF k = key THEN value ELSE m[k]]

\* (*ComputeResources).isEmpty, lines 608-610
ComputeResources_isEmpty(cr) == cr.CPU # "" \/ cr.Memory # ""

\* (*Resources).isEmpty, lines 612-614
Resources_isEmpty(r) ==
    ~ComputeResources_isEmpty(r.Limits) \/ ~ComputeResources_isEmpty(r.Requests)

\* (*TestGroup).isEmpty, lines 672-674
TestGroup_isEmpty(tg) ==
    tg.Name # "" \/ tg.GCSPrefix # "" \/ Len(tg.ColumnHeader) # 0

-----------------------------------------------------------------------------
(* Hash substitution: lines 189-205 *)

\* hex.EncodeToString of the SHA-1 digest of each job name of the model
SHA1Hex ==
    ("ci-kubernetes-e2e-gce-cos-k8sbeta-default" :> "1789b1211db614f33979daed5b2fe169e74f329a") @@
    ("ci-kubernetes-e2e-gce-cos-k8sbeta-flaky" :> "45fd5448853360f4fab3b7b63151336642f4fa0f") @@
    ("ci-kubernetes-e2e-gce-cos-k8sbeta-slow" :> "3ec9d974483adeb41ea39fea28e53f4a72373608") @@
    ("ci-kubernetes-e2e-gce-cos-k8sbeta-serial" :> "34cf3ed1e31b63b4ab7dcb61aad1d9aea2292a82") @@
    ("ci-kubernetes-e2e-gce-cos-k8sbeta-bad" :> "63f055a4729ead21719d6aef5274792ac5a81edd") @@
    ("ci-kubernetes-e2e-gce-cos-k8sbeta-cut" :> "86d3245b2bd6b80aefbfa05fc720e335d4ca591f") @@
    ("ci-kubernetes-e2e-gce-cos-k8sbeta-alpha" :> "5f65717f0de8f717795c573199680305581ec0eb") @@
    ("ci-kubernetes-e2e-gce-cos-k8sbeta-limited" :> "dab660ccd884700455a1afde8485508e9ac42426") @@
    ("ci-kubernetes-e2e-gce-cos-k8sbeta-none" :> "d6f44f38493ae802100a33da4b1e6815aeedf57c") @@
    ("ci-kubernetes-e2e-gce-ubuntu-k8sbeta-default" :> "f9eda1b205cccddf9b83bbe42ead68c33f7ef367") @@
    ("ci-kubernetes-e2e-gce-ubuntu-k8sbeta-flaky" :> "874ed98e3843afb2b03fc002616257bdc226e5b5") @@
    ("ci-kubernetes-e2e-gce-ubuntu-k8sbeta-slow" :> "2db0e33ff9280a620c68c32c91acfd4f9bbf3081") @@
    ("ci-kubernetes-e2e-gce-ubuntu-k8sbeta-serial" :> "e4c4432291c36daa428c8a61c95e78b3534f6ff4") @@
    ("ci-kubernetes-e2e-gce-ubuntu-k8sbeta-bad" :> "49b37272b698dc6afc743033cc415dacfb6aff1c") @@
    ("ci-kubernetes-e2e-gce-ubuntu-k8sbeta-cut" :> "36b9f3e2a59d8396ee9b90ac12da9176d80d9120") @@
    ("ci-kubernetes-e2e-gce-ubuntu-k8sbeta-alpha" :> "fbe16a57fd06c6b74144711d2514f3a53df04aaa") @@
    ("ci-kubernetes-e2e-gce-ubuntu-k8sbeta-limited" :> "3accc2433ccc1c1d93cfdbed7eae539a9ac86fd7") @@
    ("ci-kubernetes-e2e-gce-ubuntu-k8sbeta-none" :> "e9426acaf4d2f9ce07c108ad6be78d6a5e972f4b") @@
    ("ci-kubernetes-e2enode-cos-k8sbeta-default" :> "46ec9be5e1ee33a16a07dd439c7d6272338f45a2") @@
    ("ci-kubernetes-e2enode-cos-k8sbeta-flaky" :> "8824a3d14318ab20ddc2d9325f2ec55b70aacacd") @@
    ("ci-kubernetes-e2enode-cos-k8sbeta-slow" :> "a7d397e0036ccf6b94510b1bb2ba19beee4446f5") @@
    ("ci-kubernetes-e2enode-cos-k8sbeta-serial" :> "91a41f4665dee9a17473a9097f0881aa3c19bc2a") @@
    ("ci-kubernetes-e2enode-cos-k8sbeta-bad" :> "1b8923c1e40b40c943f7e2e79bf40b842097e517") @@
    ("ci-kubernetes-e2enode-cos-k8sbeta-cut" :> "c51578c13a13eef5bc7272410920d5eace240d00") @@
    ("ci-kubernetes-e2enode-cos-k8sbeta-alpha" :> "b27ca6c2494e2e36f91d9695f9db48e54b7945aa") @@
    ("ci-kubernetes-e2enode-cos-k8sbeta-limited" :> "3e84130e4ff0ae22915c024561b6525208b82ffc") @@
    ("ci-kubernetes-e2enode-cos-k8sbeta-none" :> "91d5316c85010ad15cd8d170eaacfcbc38b9a4c6") @@
    ("ci-kubernetes-e2enode-ubuntu-k8sbeta-default" :> "321139d4d4a488663ff68ed48efc496c1f0fd901") @@
    ("ci-kubernetes-e2enode-ubuntu-k8sbeta-flaky" :> "afefa3a73e7fd7dc17cf5c06ece3a9dd1745ec6e") @@
    ("ci-kubernetes-e2enode-ubuntu-k8sbeta-slow" :> "8c292be42d5f42440b7981c9e43a661c6752da40") @@
    ("ci-kubernetes-e2enode-ubuntu-k8sbeta-serial" :> "650b431b8a4ab79c8add30ffdaf0ec65099eeb3d") @@
    ("ci-kubernetes-e2enode-ubuntu-k8sbeta-bad" :> "7a4fb9eb809fb59356faa290b54e5134c9a72429") @@
    ("ci-kubernetes-e2enode-ubuntu-k8sbeta-cut" :> "84fd52db43dc0cb1620a83465364419b31a17605") @@
    ("ci-kubernetes-e2enode-ubuntu-k8sbeta-alpha" :> "598ffd57ae7e912d7cf54386d3b169e8c5201ab8") @@
    ("ci-kubernetes-e2enode-ubuntu-k8sbeta-limited" :> "27aaba1af9a7f7e040f57c8e5caaf1c53aa1f6a2") @@
    ("ci-kubernetes-e2enode-ubuntu-k8sbeta-none" :> "2a9c4e0b93afc2146a17d4ef07970249efcca5d0") @@
    ("ci-kubernetes" :> "a4c87b79a923f830bc440db9aab3c54cf0017e72") @@
    ("ci-kubernetes-unit-gce-cos-k8sbeta-default" :> "91cd9b52da81562a1ca5e83d3d6b753fe0c42ef9") @@
    ("ci-kubernetes-e2e-gce-cos-k8sbeta" :> "8b63a2cca8a521efd40e2854143810af6e4b3e04") @@
    ("ci-kubernetes-e2enode-cos-k8sbeta-default-extra" :> "1a0d5c0dd7c32cbdf092be06a8af085be64ccd55") @@
    ("ci-kubernetes-e2e-gce-cos-v1-default" :> "fcdcfc58782958120753a4e73eb74fc0ca5558ef") @@
    ("ci-kubernetes-e2e-aws-cos-k8sdev-default" :> "6578c7959584c9fc39cb29e02b3f28937e281d04") @@
    ("ci-kubernetes-e2enode-ubuntu-k8sdev-alpha" :> "deaa835e0a87f14fe31220a1f478cb8312141172")

getSHA1Hash(data) == SHA1Hex[data]

RECURSIVE substitute(_, _)
substitute(jobName, lines) ==
    IF Len(lines) = 0 THEN <<>>
    ELSE <<ReplaceAll(Head(lines), "${job_name_hash}",
                      SubSeq(getSHA1Hash(jobName), 1, 10))>>
             \o substitute(jobName, Tail(lines))

getArgs(jobName, args) == substitute(jobName, args)

-----------------------------------------------------------------------------
(* Compiling one job: lines 138-162 and 207-528 *)

\* log.Fatal and a runtime panic both end the process on the spot; a function
\* that reaches one of them yields Fatal, which its callers pass up unchanged
Fatal == [fatal |-> TRUE]

\* the default of the --output-dir flag, as filepath.Join cleans it
OutputDir == "config/jobs/kubernetes/generated"

\* the Periodic literal of lines 307-336 and 405-434
DefaultPeriodic(jobName) ==
    [Name |-> jobName,
     Tags |-> <<"generated">>,
     Interval |-> "",
     Cron |-> "",
     Labels |-> [k \in {"preset-service-account", "preset-k8s-ssh"} |-> "true"],
     Decorate |-> TRUE,
     DecorationConfig |-> [Timeout |-> "180m"],
     Spec |-> [Containers |-> <<
         [Command |-> <<>>,
          Args |-> <<>>,
          Env |-> "",
          Image |-> "gcr.io/k8s-staging-test-infra/kubekins-e2e:v20231206-f7b83ffbe6-master",
          Resources |-> [Requests |-> [CPU |-> "1000m", Memory |-> "3Gi"],
                         Limits |-> [CPU |-> "1000m", Memory |-> "3Gi"]]] >>],
     Cluster |-> "",
     Annotations |-> NoAnnotations]

\* lines 337-341 and 435-439
ChooseCluster(testSuite, job, default) ==
    IF testSuite.Cluster # "" THEN testSuite.Cluster
    ELSE IF job.Cluster # "" THEN job.Cluster
    ELSE default

\* lines 342-346 and 440-444
ChooseResources(testSuite, job, default) ==
    IF ~Resources_isEmpty(testSuite.Resources) THEN testSuite.Resources
    ELSE IF ~Resources_isEmpty(job.Resources) THEN job.Resources
    ELSE default

\* ScanTimeout dropping Atoi's error instead of ending the run on it
RECURSIVE ScanTimeoutLenient(_)
ScanTimeoutLenient(args) ==
    IF Len(args) = 0 THEN [fatal |-> FALSE, timeout |-> 0]
    ELSE LET arg == Head(args)
         IN  IF HasPrefix(arg, "--timeout=")
             THEN IF Len(arg) - 1 < 10 THEN Fatal
                  ELSE [fatal |-> FALSE,
                        timeout |-> Atoi(SubSeq(arg, 11, Len(arg) - 1)).val]
             ELSE ScanTimeoutLenient(Tail(args))

\* the loop of lines 358-369 and 456-467: the first entry prefixed --timeout=
\* decides; its text between the prefix and its last character goes to Atoi.
\* No such entry leaves timeout at its zero value.  arg[10:len(arg)-1] panics
\* for the bare prefix.
RECURSIVE ScanTimeout(_)
ScanTimeout(args) ==
    IF Len(args) = 0 THEN [fatal |-> FALSE, timeout |-> 0]
    ELSE LET arg == Head(args)
         IN  IF HasPrefix(arg, "--timeout=")
             THEN IF Len(arg) - 1 < 10 THEN Fatal
                  ELSE LET parsed == Atoi(SubSeq(arg, 11, Len(arg) - 1))
                       IN  IF parsed.err THEN Fatal
                           ELSE [fatal |-> FALSE, timeout |-> parsed.val]
             ELSE ScanTimeout(Tail(args))

\* NewTimeout without the 20 minutes of lines 370 and 468
NewTimeoutNoBuffer(timeout) == Itoa(timeout) \o "m"

\* lines 370 and 468
NewTimeout(timeout) == Itoa(timeout + 20) \o "m"

\* lines 347-356 and 445-454, applied to the Periodic p
SetSchedule(p, job) ==
    IF job.Interval # ""
    THEN [p EXCEPT !.Cron = "", !.Interval = job.Interval]
    ELSE [p EXCEPT !.Interval = "", !.Cron = job.Cron]

\* newE2ETest with the cloud-provider and the k8s-version layers taking each
\* other's place
newE2ETestSwapped(outputDir, jobName, job, cfg) ==
    LET fields == Split(jobName, "-")
    IN  IF Len(fields) # 7 THEN Fatal
        ELSE IF Len(fields[6]) < 3 THEN Fatal
        ELSE LET cp == MapGet(cfg.CloudProviders, fields[4], NoCloudProvider)
                 k8s == MapGet(cfg.K8SVersions,
                               SubSeq(fields[6], 4, Len(fields[6])), NoK8SVersion)
             IN  [fatal |-> FALSE,
                  EnvFilename |-> outputDir \o "/" \o jobName \o ".env",
                  JobName |-> jobName,
                  Job |-> job,
                  fields |-> fields,
                  Common |-> cfg.Common,
                  CloudProvider |-> [Args |-> k8s.Args],
                  Image |-> MapGet(cfg.Images, fields[5], NoImage),
                  K8SVersion |-> [Args |-> cp.Args, Version |-> k8s.Version],
                  TestSuite |-> MapGet(cfg.TestSuites, fields[7], NoTestSuite)]

\* newE2ETest, lines 207-224
newE2ETest(outputDir, jobName, job, cfg) ==
    LET fields == Split(jobName, "-")
    IN  IF Len(fields) # 7 THEN Fatal
        ELSE IF Len(fields[6]) < 3 THEN Fatal
        ELSE [fatal |-> FALSE,
              EnvFilename |-> outputDir \o "/" \o jobName \o ".env",
              JobName |-> jobName,
              Job |-> job,
              fields |-> fields,
              Common |-> cfg.Common,
              CloudProvider |-> MapGet(cfg.CloudProviders, fields[4], NoCloudProvider),
              Image |-> MapGet(cfg.Images, fields[5], NoImage),
              K8SVersion |-> MapGet(cfg.K8SVersions,
                                    SubSeq(fields[6], 4, Len(fields[6])), NoK8SVersion),
              TestSuite |-> MapGet(cfg.TestSuites, fields[7], NoTestSuite)]

\* (*E2ETest).getJobDefinition, lines 272-283
E2ETest_getJobDefinition(et, args) ==
    [Scenario |-> "kubernetes_e2e",
     Args |-> args,
     SigOwners |-> IF Len(et.Job.SigOwners) = 0 THEN <<"UNKOWN">> ELSE et.Job.SigOwners]

\* (*E2ETest).getTestGridConfig, lines 285-304
E2ETest_getTestGridConfig(et) ==
    [Name |-> et.JobName,
     GCSPrefix |-> GCSLOGPREFIX \o et.JobName,
     ColumnHeader |-> << [ConfigurationValue |-> "node_os_image"],
                         [ConfigurationValue |-> "master_os_image"],
                         [ConfigurationValue |-> "Commit"],
                         [ConfigurationValue |-> "infra-commit"] >>]

\* (*E2ETest).getProwConfig, lines 306-373
E2ETest_getProwConfig(et, testSuite) ==
    LET base == DefaultPeriodic(et.JobName)
        placed == [base EXCEPT
                     !.Cluster = ChooseCluster(testSuite, et.Job, base.Cluster),
                     !.Spec.Containers[1].Resources =
                         ChooseResources(testSuite, et.Job,
                                         base.Spec.Containers[1].Resources)]
        scan == ScanTimeout(testSuite.Args)
    IN  IF et.Job.Interval = "" /\ et.Job.Cron = "" THEN Fatal
        ELSE IF scan.fatal THEN Fatal
        ELSE [fatal |-> FALSE,
              prowConfig |-> [SetSchedule(placed, et.Job) EXCEPT
                                !.DecorationConfig.Timeout = NewTimeout(scan.timeout)]]

\* InitializeDashBoardsWithReleaseBlockingInfo testing ReleaseInforming first
InitializeDashBoardsInformingFirst(et, version) ==
    << IF et.Job.ReleaseInforming THEN "sig-release-" \o version \o "-informing"
       ELSE IF et.Job.ReleaseBlocking THEN "sig-release-" \o version \o "-blocking"
       ELSE "sig-release-generated" >>

\* (*E2ETest).InitializeDashBoardsWithReleaseBlockingInfo, lines 260-270
E2ETest_InitializeDashBoardsWithReleaseBlockingInfo(et, version) ==
    << IF et.Job.ReleaseBlocking THEN "sig-release-" \o version \o "-blocking"
       ELSE IF et.Job.ReleaseInforming THEN "sig-release-" \o version \o "-informing"
       ELSE "sig-release-generated" >>

\* (*E2ETest).generate, lines 226-258
E2ETest_generate(et) ==
    IF Len(et.fields) # 7 THEN Fatal
    ELSE
    LET args == getArgs(et.JobName, et.Common.Args)
                  \o getArgs(et.JobName, et.CloudProvider.Args)
                  \o getArgs(et.JobName, et.Image.Args)
                  \o getArgs(et.JobName, et.K8SVersion.Args)
                  \o getArgs(et.JobName, et.TestSuite.Args)
        prow == E2ETest_getProwConfig(et, et.TestSuite)
        tabName == et.fields[4] \o "-" \o et.fields[5] \o "-" \o et.fields[6]
                       \o "-" \o et.fields[7]
        primary == E2ETest_InitializeDashBoardsWithReleaseBlockingInfo(
                       et, et.K8SVersion.Version)
        dashboards ==
            IF et.Image.TestgridPrefix # ""
            THEN Append(primary, et.Image.TestgridPrefix \o "-" \o et.fields[5]
                                     \o "-" \o et.fields[6])
            ELSE primary
    IN  IF prow.fatal THEN Fatal
        ELSE [fatal |-> FALSE,
              jobConfig |-> E2ETest_getJobDefinition(et, args),
              prowConfig |->
                  [prow.prowConfig EXCEPT !.Annotations =
                      MapPut(MapPut(MapPut(prow.prowConfig.Annotations,
                          "testgrid-tab-name", tabName),
                          "testgrid-dashboards", Join(dashboards, ", ")),
                          "testgrid-num-failures-to-alert",
                          Itoa(et.Job.TestgridNumFailuresToAlert))],
              testgridConfig |-> E2ETest_getTestGridConfig(et)]

\* newE2ENodeTest, lines 375-389
newE2ENodeTest(jobName, job, cfg) ==
    LET fields == Split(jobName, "-")
    IN  IF Len(fields) # 6 THEN Fatal
        ELSE IF Len(fields[5]) < 3 THEN Fatal
        ELSE [fatal |-> FALSE,
              JobName |-> jobName,
              Job |-> job,
              fields |-> fields,
              Common |-> cfg.Common,
              Image |-> MapGet(cfg.Images, fields[4], NoImage),
              K8SVersion |-> MapGet(cfg.NodeK8SVersions,
                                    SubSeq(fields[5], 4, Len(fields[5])),
                                    NoNodeK8SVersion),
              TestSuite |-> MapGet(cfg.TestSuites, fields[6], NoTestSuite)]

\* (*E2ENodeTest).getJobDefinition, lines 391-402
E2ENodeTest_getJobDefinition(ent, args) ==
    [Scenario |-> "kubernetes_e2e",
     Args |-> args,
     SigOwners |-> IF Len(ent.Job.SigOwners) = 0 THEN <<"UNKOWN">> ELSE ent.Job.SigOwners]

\* (*E2ENodeTest).getProwConfig, lines 404-480
E2ENodeTest_getProwConfig(ent, testSuite, k8sVersion) ==
    LET base == DefaultPeriodic(ent.JobName)
        placed == [base EXCEPT
                     !.Cluster = ChooseCluster(testSuite, ent.Job, base.Cluster),
                     !.Spec.Containers[1].Resources =
                         ChooseResources(testSuite, ent.Job,
                                         base.Spec.Containers[1].Resources)]
        scan == ScanTimeout(testSuite.Args)
    IN  IF ent.Job.Interval = "" /\ ent.Job.Cron = "" THEN Fatal
        ELSE IF scan.fatal THEN Fatal
        ELSE [fatal |-> FALSE,
              prowConfig |-> [SetSchedule(placed, ent.Job) EXCEPT
                  !.DecorationConfig.Timeout = NewTimeout(scan.timeout),
                  !.Spec.Containers[1].Args =
                      (base.Spec.Containers[1].Args \o k8sVersion.Args)
                          \o <<"--root=/go/src">>,
                  !.Spec.Containers[1].Image =
                      IF k8sVersion.ProwImage # "" THEN k8sVersion.ProwImage
                      ELSE base.Spec.Containers[1].Image]]

\* the loop of lines 511-513
RECURSIVE AppendNodeArgs(_, _)
AppendNodeArgs(nodeFlag, nodeArgs) ==
    IF Len(nodeArgs) = 0 THEN nodeFlag
    ELSE AppendNodeArgs(nodeFlag \o Head(nodeArgs) \o " ", Tail(nodeArgs))

\* CoalesceNodeArgs leaving the scattered entries in place
CoalesceNodeArgsKeep(args) ==
    LET picked == SelectSeq(args, LAMBDA arg : Contains(arg, "--node-args="))
        nodeArgs == [i \in 1..Len(picked) |-> SplitN2(picked[i], "=")[2]]
    IN  IF Len(nodeArgs) # 0
        THEN Append(args, TrimSpace(AppendNodeArgs("--node-args=", nodeArgs)))
        ELSE args

\* lines 500-516: the node-args post-pass of (*E2ENodeTest).generate
CoalesceNodeArgs(args) ==
    LET picked == SelectSeq(args, LAMBDA arg : Contains(arg, "--node-args="))
        nodeArgs == [i \in 1..Len(picked) |-> SplitN2(picked[i], "=")[2]]
        jobArgs == SelectSeq(args, LAMBDA arg : ~Contains(arg, "--node-args="))
    IN  IF Len(nodeArgs) # 0
        THEN Append(jobArgs, TrimSpace(AppendNodeArgs("--node-args=", nodeArgs)))
        ELSE jobArgs

\* (*E2ENodeTest).generate, lines 482-528
E2ENodeTest_generate(ent) ==
    IF Len(ent.fields) # 6 THEN Fatal
    ELSE
    LET args == getArgs(ent.JobName, ent.Common.Args)
                  \o getArgs(ent.JobName, ent.Image.Args)
                  \o getArgs(ent.JobName, ent.TestSuite.Args)
        jobDef == E2ENodeTest_getJobDefinition(ent, args)
        prow == E2ENodeTest_getProwConfig(ent, ent.TestSuite, ent.K8SVersion)
        dashboard == ent.Image.TestgridPrefix \o "-" \o ent.fields[4]
                         \o "-" \o ent.fields[5]
        tabName == ent.fields[4] \o "-" \o ent.fields[5] \o "-" \o ent.fields[6]
    IN  IF prow.fatal THEN Fatal
        ELSE [fatal |-> FALSE,
              jobConfig |-> [jobDef EXCEPT !.Args = CoalesceNodeArgs(jobDef.Args)],
              prowConfig |->
                  IF ent.Image.TestgridPrefix # ""
                  THEN [prow.prowConfig EXCEPT !.Annotations =
                           MapPut(MapPut(prow.prowConfig.Annotations,
                               "testgrid-dashboards", dashboard),
                               "testgrid-tab-name", tabName)]
                  ELSE prow.prowConfig]

\* forEachJob up to the end of its switch, lines 139-156
forEachJob_generate(outputDir, jobName, job, cfg) ==
    LET fields == Split(jobName, "-")
    IN  IF Len(fields) < 3 THEN Fatal
        ELSE IF fields[3] = "e2e"
        THEN LET e2eTest == newE2ETest(outputDir, jobName, job, cfg)
             IN  IF e2eTest.fatal THEN Fatal ELSE E2ETest_generate(e2eTest)
        ELSE IF fields[3] = "e2enode"
        THEN LET e2eNodeTest == newE2ENodeTest(jobName, job, cfg)
                 made == E2ENodeTest_generate(e2eNodeTest)
             IN  IF e2eNodeTest.fatal THEN Fatal
                 ELSE IF made.fatal THEN Fatal
                 ELSE [fatal |-> FALSE,
                       jobConfig |-> made.jobConfig,
                       prowConfig |-> made.prowConfig,
                       testgridConfig |-> NoTestGroup]
        ELSE Fatal

\* forEachJob after its switch, lines 157-161: the Periodic it returns
forEachJob_finish(jobName, job, jobCfg, prowCfg) ==
    LET args == applyJobOverrides(jobCfg.Args, getArgs(jobName, job.Args))
    IN  [prowCfg EXCEPT
           !.Spec.Containers[1].Args = prowCfg.Spec.Containers[1].Args \o args,
           !.Spec.Containers[1].Command =
               <<"runner.sh", "/workspace/scenarios/" \o jobCfg.Scenario \o ".py">>]

\* forEachJob, lines 138-162
forEachJob(outputDir, jobName, job, cfg) ==
    LET made == forEachJob_generate(outputDir, jobName, job, cfg)
    IN  IF made.fatal THEN Fatal
        ELSE [fatal |-> FALSE,
              prow |-> forEachJob_finish(jobName, job, made.jobConfig, made.prowConfig),
              testgrid |-> made.testgridConfig]

-----------------------------------------------------------------------------
(* The configurations of the model *)

SuiteResources == [Requests |-> [CPU |-> "2", Memory |-> "6Gi"],
                   Limits |-> [CPU |-> "2", Memory |-> "6Gi"]]
JobResources == [Requests |-> [CPU |-> "4", Memory |-> "14Gi"],
                 Limits |-> [CPU |-> "4", Memory |-> "14Gi"]]
RequestsOnly == [Requests |-> [CPU |-> "3", Memory |-> ""],
                 Limits |-> NoComputeResources]
LimitsOnly == [Requests |-> NoComputeResources,
               Limits |-> [CPU |-> "", Memory |-> "8Gi"]]

\* testSuites: with one integer timeout, with none, with two, with a
\* signed one followed by a malformed one, with a malformed one, with the bare
\* prefix, with scattered --node-args, and with resources set in full or in part
TestSuites ==
    [s \in {"default", "flaky", "slow", "serial", "bad", "cut", "alpha", "limited"} |->
        CASE s = "default" ->
               [Args |-> <<"--timeout=120m", "--ginkgo-parallel=30">>,
                Resources |-> NoResources, Cluster |-> ""]
          [] s = "flaky" ->
               [Args |-> <<"--test_args=--ginkgo.focus=Flaky">>,
                Resources |-> SuiteResources, Cluster |-> "k8s-infra-prow-build"]
          [] s = "slow" ->
               [Args |-> <<"--timeout=10m", "--timeout=30m">>,
                Resources |-> RequestsOnly, Cluster |-> ""]
          [] s = "serial" ->
               [Args |-> <<"--node-args=--serial", "--timeout=+5h", "--timeout=laterm">>,
                Resources |-> SuiteResources, Cluster |-> "k8s-infra-prow-build"]
          [] s = "bad" ->
               [Args |-> <<"--timeout=soonm">>,
                Resources |-> NoResources, Cluster |-> ""]
          [] s = "cut" ->
               [Args |-> <<"--timeout=">>,
                Resources |-> NoResources, Cluster |-> ""]
          [] s = "alpha" ->
               [Args |-> <<"--node-args=--feature-gates=AllAlpha=true", "--x=1",
                           "--node-args=--runtime=containerd", "--timeout=60m",
                           "--bucket=${job_name_hash}">>,
                Resources |-> NoResources, Cluster |-> ""]
          [] s = "limited" ->
               [Args |-> <<"--ginkgo-parallel=1">>,
                Resources |-> LimitsOnly, Cluster |-> ""] ]

CloudProviders ==
    [c \in {"gce"} |-> [Args |-> <<"--provider=gce", "--gcp-zone=us-west1-b">>]]

Images ==
    [i \in {"cos", "ubuntu"} |->
        IF i = "cos"
        THEN [Args |-> <<"--gcp-node-image=gci">>, TestgridPrefix |-> "google-gce"]
        ELSE [Args |-> <<"--gcp-node-image=ubuntu", "--node-args=--kubelet-flags=x ">>,
              TestgridPrefix |-> ""]]

K8SVersions ==
    [v \in {"beta", "dev"} |->
        IF v = "beta"
        THEN [Args |-> <<"--extract=ci/latest-1.29">>, Version |-> "1.29"]
        ELSE [Args |-> <<"--extract=ci/latest">>, Version |-> "master"]]

NodeK8SVersions ==
    [v \in {"beta", "dev"} |->
        IF v = "beta"
        THEN [Args |-> <<"--repo=k8s.io/kubernetes=release-1.29">>,
              ProwImage |-> "gcr.io/k8s-staging-test-infra/kubekins-e2e:v20231206-1.29"]
        ELSE [Args |-> <<"--repo=k8s.io/kubernetes">>, ProwImage |-> ""]]

\* common: one with a --timeout of its own, one with --node-args, one of them
\* inside another flag's value, and one with a single --node-args entry
CommonPool ==
    { [Args |-> <<"--check-leaked-resources", "--timeout=340m">>,
       TestgridPrefix |-> ""],
      [Args |-> <<"--check-leaked-resources", "--node-args=--v=2">>,
       TestgridPrefix |-> ""],
      [Args |-> <<"--cluster=test-${job_name_hash}", "--node-args=--v=2",
                  "--test-cmd-args=--node-args=--w">>,
       TestgridPrefix |-> ""] }

PlainCommon == [Args |-> <<"--check-leaked-resources", "--timeout=340m">>,
                TestgridPrefix |-> ""]

JobSpec(interval, cron, blocking, informing, cluster, alert, args, resources) ==
    [Scenario |-> "", Interval |-> interval, Cron |-> cron, SigOwners |-> <<>>,
     ReleaseBlocking |-> blocking, ReleaseInforming |-> informing,
     Cluster |-> cluster, TestgridNumFailuresToAlert |-> alert,
     Args |-> args, Resources |-> resources]

Hourly == JobSpec("2h", "", FALSE, FALSE, "", 0, <<>>, NoResources)
Nightly == JobSpec("", "0 3 * * *", TRUE, FALSE, "eks-prow-build-cluster", 6,
                   <<"--timeout=50m", "--ginkgo-parallel=1">>, JobResources)
Unscheduled == JobSpec("", "", FALSE, FALSE, "", 0, <<>>, NoResources)

\* the job specs of the single-job configurations
JobSpecPool ==
    { Hourly, Nightly, Unscheduled,
      JobSpec("1h", "0 * * * *", FALSE, TRUE, "", 3,
              <<"--node-args=--v=4">>, LimitsOnly),
      JobSpec("30m", "", TRUE, TRUE, "eks-prow-build-cluster", 12,
              <<"--node-args=--v=4", "--x=2", "--node-args=--w", "--env=${job_name_hash}">>,
              RequestsOnly),
      JobSpec("6h", "", FALSE, FALSE, "", 0, <<"--gcp-node-image=custom">>, JobResources) }

\* the job specs of the batch configurations
BatchSpecPool == {Hourly, Nightly, Unscheduled}

\* the job names of the single-job configurations: both kinds, both images,
\* every test suite and an absent one
SingleNames ==
    { "ci-kubernetes-" \o kind \o "-" \o image \o "-k8sbeta-" \o suite :
        kind \in {"e2e-gce", "e2enode"},
        image \in {"cos", "ubuntu"},
        suite \in DOMAIN TestSuites \cup {"none"} }

\* the job names of the batch configurations: well-formed names of both kinds,
\* names whose test suite cannot be compiled, and malformed names
BatchNames ==
    { "ci-kubernetes-e2e-gce-cos-k8sbeta-default",
      "ci-kubernetes-e2enode-cos-k8sbeta-default",
      "ci-kubernetes-e2e-aws-cos-k8sdev-default",
      "ci-kubernetes-e2enode-ubuntu-k8sdev-alpha",
      "ci-kubernetes-e2e-gce-ubuntu-k8sbeta-serial",
      "ci-kubernetes-e2enode-cos-k8sbeta-bad",
      "ci-kubernetes",
      "ci-kubernetes-unit-gce-cos-k8sbeta-default",
      "ci-kubernetes-e2e-gce-cos-k8sbeta",
      "ci-kubernetes-e2enode-cos-k8sbeta-default-extra",
      "ci-kubernetes-e2e-gce-cos-v1-default" }

ConfigFile(jobs, common) ==
    [Jobs |-> jobs,
     Common |-> common,
     CloudProviders |-> CloudProviders,
     Images |-> Images,
     K8SVersions |-> K8SVersions,
     NodeK8SVersions |-> NodeK8SVersions,
     TestSuites |-> TestSuites]

SingleConfigs ==
    { ConfigFile([n \in {name} |-> job], common) :
        name \in SingleNames, job \in JobSpecPool, common \in CommonPool }

BatchConfigs ==
    UNION { { ConfigFile(jobs, PlainCommon) : jobs \in [names -> BatchSpecPool] } :
            names \in {ns \in SUBSET BatchNames : Cardinality(ns) <= MaxJobs} }

-----------------------------------------------------------------------------
(* main: lines 71-99 *)

\* the configuration is read; nothing is sorted, compiled or written yet
Init ==
    /\ config \in SingleConfigs \cup BatchConfigs
    /\ jobNames = <<>>
    /\ idx = 0
    /\ jobConfig = <<>> /\ prowConfig = <<>> /\ testgrid = <<>>
    /\ outputConfig = <<>>
    /\ testgridConfig = <<>>
    /\ written = <<>>
    /\ pc = "main"
    /\ envsOrArgs = <<>> /\ jobEnvsOrArgs = <<>>
    /\ applied = <<>> /\ reapplied = <<>>

\* lines 77-87: the job names are collected and sorted
SortNames ==
    /\ pc = "main"
    /\ jobNames' = SortedJobNames(DOMAIN config.Jobs)
    /\ idx' = 1
    /\ pc' = "loop"
    /\ UNCHANGED <<config, jobConfig, prowConfig, testgrid, outputConfig,
                   testgridConfig, written, overrideVars>>

\* line 89, forEachJob up to the end of its switch
Generate ==
    /\ pc = "loop"
    /\ idx <= Len(jobNames)
    /\ LET made == forEachJob_generate(OutputDir, jobNames[idx],
                                       config.Jobs[jobNames[idx]], config)
       IN  /\ ~made.fatal
           /\ jobConfig' = made.jobConfig
           /\ prowConfig' = made.prowConfig
           /\ testgrid' = made.testgridConfig
    /\ pc' = "override"
    /\ UNCHANGED <<config, jobNames, idx, outputConfig, testgridConfig, written,
                   overrideVars>>

\* line 89, forEachJob ending the process in log.Fatal or a panic
Abort ==
    /\ pc = "loop"
    /\ idx <= Len(jobNames)
    /\ forEachJob_generate(OutputDir, jobNames[idx],
                           config.Jobs[jobNames[idx]], config).fatal
    /\ pc' = "aborted"
    /\ UNCHANGED <<config, jobNames, idx, jobConfig, prowConfig, testgrid,
                   outputConfig, testgridConfig, written, overrideVars>>

\* lines 157-161 of forEachJob, then lines 90-93 of main
Collect ==
    /\ pc = "override"
    /\ outputConfig' =
           Append(outputConfig,
                  forEachJob_finish(jobNames[idx], config.Jobs[jobNames[idx]],
                                    jobConfig, prowConfig))
    /\ testgridConfig' = IF ~TestGroup_isEmpty(testgrid)
                         THEN Append(testgridConfig, testgrid)
                         ELSE testgridConfig
    /\ idx' = idx + 1
    /\ jobConfig' = <<>> /\ prowConfig' = <<>> /\ testgrid' = <<>>
    /\ pc' = "loop"
    /\ UNCHANGED <<config, jobNames, written, overrideVars>>

\* lines 95-97: the periodics go to SaveConfigsToFile
Save ==
    /\ pc = "loop"
    /\ idx > Len(jobNames)
    /\ written' = Append(written, [Path |-> OutputDir \o "/generated.yaml",
                                   Periodics |-> outputConfig])
    /\ pc' = "written"
    /\ UNCHANGED <<config, jobNames, idx, jobConfig, prowConfig, testgrid,
                   outputConfig, testgridConfig, overrideVars>>

Next == SortNames \/ Generate \/ Abort \/ Collect \/ Save

Spec == Init /\ [][Next]_vars

-----------------------------------------------------------------------------
(* applyJobOverrides on its own: every base list and every override list   *)
(* over ArgPool, applied once and then once more to its own result         *)

\* the entries the lists of SpecOverride are drawn from: two values of one
\* name, the bare name, an entry with leading whitespace, a second name, the
\* empty entry and an entry with the empty name
ArgPool == {"a=1", "a=2", "a", " a=1", "b=1", "", "=x"}

SeqsUpTo(S, n) == UNION {[1..k -> S] : k \in 0..n}

InitOverride ==
    /\ envsOrArgs \in SeqsUpTo(ArgPool, MaxBase)
    /\ jobEnvsOrArgs \in SeqsUpTo(ArgPool, MaxOver)
    /\ applied = <<>>
    /\ reapplied = <<>>
    /\ pc = "start"
    /\ config = <<>> /\ jobNames = <<>> /\ idx = 0
    /\ jobConfig = <<>> /\ prowConfig = <<>> /\ testgrid = <<>>
    /\ outputConfig = <<>> /\ testgridConfig = <<>> /\ written = <<>>

Apply ==
    /\ pc = "start"
    /\ applied' = applyJobOverrides(envsOrArgs, jobEnvsOrArgs)
    /\ pc' = "applied"
    /\ UNCHANGED <<envsOrArgs, jobEnvsOrArgs, reapplied, mainVars>>

Reapply ==
    /\ pc = "applied"
    /\ reapplied' = applyJobOverrides(applied, jobEnvsOrArgs)
    /\ pc' = "reapplied"
    /\ UNCHANGED <<envsOrArgs, jobEnvsOrArgs, applied, mainVars>>

NextOverride == Apply \/ Reapply

SpecOverride == InitOverride /\ [][NextOverride]_vars

-----------------------------------------------------------------------------
(* Claims C1-C3: applyJobOverrides *)

\* the name an entry carries: the text before its first '=', or all of it
NameOf(e) == IF Index(e, "=") = 0 THEN e ELSE SubSeq(e, 1, Index(e, "=") - 1)

\* entry e is one that name n displaces
Matches(e, n) == TrimSpace(e) = n \/ HasPrefix(TrimSpace(e), n \o "=")

OverrideDone == pc \in {"applied", "reapplied"}

\* the position in the result at which override i was appended
TailPos(i) == Len(applied) - Len(jobEnvsOrArgs) + i

LastWithName(n) ==
    CHOOSE i \in DOMAIN jobEnvsOrArgs :
        /\ NameOf(jobEnvsOrArgs[i]) = n
        /\ \A j \in DOMAIN jobEnvsOrArgs : NameOf(jobEnvsOrArgs[j]) = n => j <= i

\* C1 as stated: for every base list and every override list, each name
\* carried by an override entry occurs in the result exactly once, as the last
\* override entry with that name, and no base entry matching the name is left.
C1_LastWriterWins ==
    OverrideDone =>
        \A i \in DOMAIN jobEnvsOrArgs :
            LET n == NameOf(jobEnvsOrArgs[i])
                occ == {k \in DOMAIN applied : NameOf(applied[k]) = n}
            IN  /\ Cardinality(occ) = 1
                /\ \A k \in occ : applied[k] = jobEnvsOrArgs[LastWithName(n)]
                /\ \A k \in DOMAIN applied :
                       k <= Len(applied) - Len(jobEnvsOrArgs) => ~Matches(applied[k], n)

\* the override names are pairwise distinct and carry no surrounding whitespace
DistinctTrimmedNames ==
    /\ \A i, j \in DOMAIN jobEnvsOrArgs :
           i # j => NameOf(jobEnvsOrArgs[i]) # NameOf(jobEnvsOrArgs[j])
    /\ \A i \in DOMAIN jobEnvsOrArgs :
           TrimSpace(NameOf(jobEnvsOrArgs[i])) = NameOf(jobEnvsOrArgs[i])

\* each override name is matched by at most one base entry, and not by an
\* empty one
AtMostOneBaseMatch ==
    \A i \in DOMAIN jobEnvsOrArgs :
        LET hit == {k \in DOMAIN envsOrArgs :
                        Matches(envsOrArgs[k], NameOf(jobEnvsOrArgs[i]))}
        IN  /\ Cardinality(hit) <= 1
            /\ \A k \in hit : envsOrArgs[k] # ""

\* C1 as amended: when the override names are pairwise distinct and trimmed,
\* and each is matched by at most one base entry, none of them empty, then each
\* override name occurs in the result exactly once, as its override entry at
\* the tail, and no base entry matching the name is left.
C1_LastWriterWinsUnique ==
    (OverrideDone /\ DistinctTrimmedNames /\ AtMostOneBaseMatch) =>
        \A i \in DOMAIN jobEnvsOrArgs :
            LET n == NameOf(jobEnvsOrArgs[i])
                occ == {k \in DOMAIN applied : NameOf(applied[k]) = n}
            IN  /\ occ = {TailPos(i)}
                /\ applied[TailPos(i)] = jobEnvsOrArgs[i]
                /\ \A k \in DOMAIN applied : k # TailPos(i) => ~Matches(applied[k], n)

\* C1's case: an override displaced the one base entry of its name
C1_Witness ==
    /\ pc = "applied"
    /\ DistinctTrimmedNames /\ AtMostOneBaseMatch
    /\ Len(jobEnvsOrArgs) = 2
    /\ \E k \in DOMAIN envsOrArgs :
           /\ Matches(envsOrArgs[k], NameOf(jobEnvsOrArgs[1]))
           /\ envsOrArgs[k] # jobEnvsOrArgs[1]
    /\ Len(applied) = Len(envsOrArgs) + 1

RECURSIVE IsSubseq(_, _)
IsSubseq(small, big) ==
    IF Len(small) = 0 THEN TRUE
    ELSE IF Len(big) = 0 THEN FALSE
    ELSE IF Head(small) = Head(big) THEN IsSubseq(Tail(small), Tail(big))
    ELSE IsSubseq(small, Tail(big))

\* C2: the result is the base list with at most one entry removed per override
\* entry, the surviving base entries in their original order, followed by all
\* override entries in override order.
C2_BaseThenOverrides ==
    OverrideDone =>
        /\ Len(applied) >= Len(jobEnvsOrArgs)
        /\ SubSeq(applied, Len(applied) - Len(jobEnvsOrArgs) + 1, Len(applied))
               = jobEnvsOrArgs
        /\ IsSubseq(SubSeq(applied, 1, Len(applied) - Len(jobEnvsOrArgs)), envsOrArgs)
        /\ Len(applied) >= Len(envsOrArgs)

\* C3 as stated: for every base list and every override list, applying the
\* overrides to the already-overridden list gives the same list again.
C3_Reapply ==
    pc = "reapplied" => reapplied = applied

\* C3 as amended: when the override entries are non-empty, their names pairwise
\* distinct and trimmed, and each name is matched by at most one base entry,
\* none of them empty, applying the overrides again gives the same list.
C3_ReapplyUnique ==
    ( /\ pc = "reapplied"
      /\ DistinctTrimmedNames /\ AtMostOneBaseMatch
      /\ \A i \in DOMAIN jobEnvsOrArgs : jobEnvsOrArgs[i] # "" )
        => reapplied = applied

\* C3's case: the second application removed and re-appended an entry that the
\* first application had put in place of a base entry
C3_Witness ==
    /\ pc = "reapplied"
    /\ DistinctTrimmedNames /\ AtMostOneBaseMatch
    /\ Len(jobEnvsOrArgs) = 2
    /\ \A i \in DOMAIN jobEnvsOrArgs : jobEnvsOrArgs[i] # ""
    /\ Len(applied) < Len(envsOrArgs) + Len(jobEnvsOrArgs)
    /\ reapplied = applied

-----------------------------------------------------------------------------
(* Claims C4-C10: the batch and the compilation of one job *)

\* the periodics emitted so far
Emitted == {outputConfig[i] : i \in DOMAIN outputConfig}

FieldsOf(jobName) == Split(jobName, "-")

\* the kind token of a job name with at least three fields
KindOf(jobName) == FieldsOf(jobName)[3]

\* the test-suite axis a well-formed job name resolves to
SuiteOf(jobName) ==
    MapGet(config.TestSuites,
           FieldsOf(jobName)[IF KindOf(jobName) = "e2e" THEN 7 ELSE 6],
           NoTestSuite)

\* the container of an emitted Periodic
ContainerOf(p) == p.Spec.Containers[1]

TimeoutPrefixed(args) == SelectSeq(args, LAMBDA e : HasPrefix(e, "--timeout="))

\* e is --timeout=<N><unit>: an integer N and one character of unit
IsTimeoutEntry(e) ==
    /\ HasPrefix(e, "--timeout=")
    /\ Len(e) >= 12
    /\ ~Atoi(SubSeq(e, 11, Len(e) - 1)).err

TimeoutOf(e) == Atoi(SubSeq(e, 11, Len(e) - 1)).val

\* C4: a Periodic whose test suite has no --timeout= argument keeps the
\* default decoration timeout "180m", for both job kinds.
C4_DefaultTimeout ==
    \A p \in Emitted :
        TimeoutPrefixed(SuiteOf(p.Name).Args) = <<>>
            => p.DecorationConfig.Timeout = "180m"

\* C5 as stated: whenever the test-suite arguments contain an entry
\* --timeout=<N><unit> with integer N, the decoration timeout is "<N+20>m".
C5_Timeout ==
    \A p \in Emitted :
        LET args == SuiteOf(p.Name).Args
        IN  \A k \in DOMAIN args :
                IsTimeoutEntry(args[k])
                    => p.DecorationConfig.Timeout = Itoa(TimeoutOf(args[k]) + 20) \o "m"

\* C5 as amended: when the first test-suite argument prefixed --timeout= is
\* --timeout=<N><unit> with integer N and a one-character unit, the decoration
\* timeout is "<N+20>m", whatever --timeout the other layers and the job's
\* override arguments carry.
C5_TimeoutFirst ==
    \A p \in Emitted :
        LET prefixed == TimeoutPrefixed(SuiteOf(p.Name).Args)
        IN  (prefixed # <<>> /\ IsTimeoutEntry(prefixed[1]))
                => p.DecorationConfig.Timeout = Itoa(TimeoutOf(prefixed[1]) + 20) \o "m"

\* C5's case: the suite says 120m, the common layer 340m and the job's override
\* 50m, and the decoration timeout is 140m
C5_Witness ==
    \E p \in Emitted :
        /\ SuiteOf(p.Name).Args[1] = "--timeout=120m"
        /\ \E k \in DOMAIN config.Common.Args : config.Common.Args[k] = "--timeout=340m"
        /\ \E k \in DOMAIN config.Jobs[p.Name].Args :
               config.Jobs[p.Name].Args[k] = "--timeout=50m"
        /\ p.DecorationConfig.Timeout = "140m"

\* C6: after the loop the test-group list holds exactly one TestGroup, named
\* after the job and with its log-bucket prefix, for every e2e job, and nothing
\* for an e2enode job.
C6_TestGroups ==
    (pc = "loop" /\ idx > Len(jobNames)) =>
        LET e2eJobs == {n \in DOMAIN config.Jobs : KindOf(n) = "e2e"}
        IN  /\ Len(testgridConfig) = Cardinality(e2eJobs)
            /\ \A n \in e2eJobs :
                   \E i \in DOMAIN testgridConfig :
                       /\ testgridConfig[i].Name = n
                       /\ testgridConfig[i].GCSPrefix = GCSLOGPREFIX \o n

\* the base layers of an e2enode job, hash-substituted
NodeBaseArgs(jobName) ==
    LET f == FieldsOf(jobName)
    IN  getArgs(jobName, config.Common.Args)
            \o getArgs(jobName, MapGet(config.Images, f[4], NoImage).Args)
            \o getArgs(jobName, SuiteOf(jobName).Args)

ValueOf(arg) == SubSeq(arg, Index(arg, "=") + 1, Len(arg))

NodePrefixed(args) == SelectSeq(args, LAMBDA a : HasPrefix(a, "--node-args="))

NodeContaining(args) == SelectSeq(args, LAMBDA a : Contains(a, "--node-args="))

ValuesOf(args) == [i \in DOMAIN args |-> ValueOf(args[i])]

\* C7 as stated: the final argument list of an e2enode job, after the base
\* layers, the job overrides and the post-pass, has at most one entry prefixed
\* --node-args=; when any --node-args= argument was present that entry is the
\* last one and carries the space-joined values of all of them.
C7_NodeArgsFinal ==
    \A p \in Emitted :
        KindOf(p.Name) = "e2enode" =>
            LET f == FieldsOf(p.Name)
                k8s == MapGet(config.NodeK8SVersions,
                              SubSeq(f[5], 4, Len(f[5])), NoNodeK8SVersion)
                all == ContainerOf(p).Args
                final == SubSeq(all, Len(k8s.Args) + 2, Len(all))
                given == NodePrefixed(NodeBaseArgs(p.Name)
                             \o getArgs(p.Name, config.Jobs[p.Name].Args))
            IN  /\ Len(NodePrefixed(final)) <= 1
                /\ given # <<>> =>
                       /\ final # <<>>
                       /\ final[Len(final)] =
                              "--node-args=" \o Join(ValuesOf(given), " ")

\* C7 as amended: the argument list an e2enode job has after the base layers
\* and the post-pass, before its overrides are applied, has at most one entry
\* prefixed --node-args=; when any base argument contains --node-args= that
\* entry is the last one and carries the space-joined texts after the first '='
\* of those arguments, trailing whitespace trimmed, and the other base
\* arguments are kept in order.
C7_NodeArgsPass ==
    (pc = "override" /\ KindOf(jobNames[idx]) = "e2enode") =>
        LET base == NodeBaseArgs(jobNames[idx])
            given == NodeContaining(base)
            others == SelectSeq(base, LAMBDA a : ~Contains(a, "--node-args="))
            got == jobConfig.Args
        IN  /\ Len(NodePrefixed(got)) <= 1
            /\ given = <<>> => got = others
            /\ given # <<>> =>
                   got = Append(others,
                                TrimSpace("--node-args=" \o Join(ValuesOf(given), " ")))

\* C7's case: scattered --node-args in the base layers came out as one
\* trailing entry and the argument between them was kept
C7_Witness ==
    /\ pc = "override"
    /\ KindOf(jobNames[idx]) = "e2enode"
    /\ Len(NodeContaining(NodeBaseArgs(jobNames[idx]))) >= 2
    /\ \E k \in DOMAIN jobConfig.Args : jobConfig.Args[k] = "--x=1"
    /\ jobConfig.Args[Len(jobConfig.Args)] =
           "--node-args=--feature-gates=AllAlpha=true --runtime=containerd"

\* the value of a --timeout= entry is not an integer
NonNumericTimeout(e) ==
    /\ HasPrefix(e, "--timeout=")
    /\ (Len(e) < 11 \/ Atoi(SubSeq(e, 11, Len(e) - 1)).err)

\* the job name is malformed: too few fields, an unknown kind, or a field count
\* that is wrong for its kind
MalformedName(jobName) ==
    LET f == FieldsOf(jobName)
    IN  \/ Len(f) < 3
        \/ f[3] \notin {"e2e", "e2enode"}
        \/ (f[3] = "e2e" /\ Len(f) # 7)
        \/ (f[3] = "e2enode" /\ Len(f) # 6)

Unscheduled_(job) == job.Interval = "" /\ job.Cron = ""

\* a job in error, as C8 lists the errors
JobInError(jobName) ==
    \/ MalformedName(jobName)
    \/ Unscheduled_(config.Jobs[jobName])
    \/ \E k \in DOMAIN SuiteOf(jobName).Args : NonNumericTimeout(SuiteOf(jobName).Args[k])

\* a job in error, the timeout error being that of the first --timeout= entry
JobInErrorFirst(jobName) ==
    \/ MalformedName(jobName)
    \/ Unscheduled_(config.Jobs[jobName])
    \/ LET prefixed == TimeoutPrefixed(SuiteOf(jobName).Args)
       IN  prefixed # <<>> /\ NonNumericTimeout(prefixed[1])

\* the loop has run through every job name
LoopDone == pc = "loop" /\ idx > Len(jobNames)

\* C8 as stated: if any job of the batch is in error, the loop never completes
\* and nothing is ever written.
C8_Abort ==
    (\E n \in DOMAIN config.Jobs : JobInError(n)) =>
        /\ written = <<>>
        /\ ~LoopDone
        /\ pc # "written"

\* C8 as amended: the same, the malformed timeout being a non-numeric value in
\* the first --timeout= entry of the test suite.
C8_AbortFirst ==
    (\E n \in DOMAIN config.Jobs : JobInErrorFirst(n)) =>
        /\ written = <<>>
        /\ ~LoopDone
        /\ pc # "written"

\* C8's case: the run ended on a job in error after an earlier job had
\* compiled, and nothing was written
C8_Witness ==
    /\ pc = "aborted"
    /\ Len(outputConfig) >= 1
    /\ JobInErrorFirst(jobNames[idx])
    /\ ~JobInErrorFirst(jobNames[1])
    /\ written = <<>>

\* the configuration with jobName as its only job
Alone(cfg, jobName) == [cfg EXCEPT !.Jobs = [n \in {jobName} |-> cfg.Jobs[jobName]]]

\* C9: no step changes the configuration, and what is written is one Periodic
\* per configured job, in ascending order of job name, each the Periodic that
\* compiling that job alone gives.
C9_Independent ==
    [][ /\ config' = config
        /\ pc' = "written" =>
              LET ps == written'[1].Periodics
              IN  /\ Len(written') = 1
                  /\ Len(ps) = Cardinality(DOMAIN config.Jobs)
                  /\ \A i \in DOMAIN ps :
                         /\ ps[i].Name \in DOMAIN config.Jobs
                         /\ \A j \in DOMAIN ps : i < j => StringLess(ps[i].Name, ps[j].Name)
                         /\ ps[i] = forEachJob(OutputDir, ps[i].Name,
                                               config.Jobs[ps[i].Name],
                                               Alone(config, ps[i].Name)).prow
      ]_vars

\* C9's case: a batch of an e2e job and an e2enode job was written
C9_Witness ==
    /\ pc = "written"
    /\ Len(written[1].Periodics) >= 2
    /\ \E i, j \in DOMAIN written[1].Periodics :
           /\ KindOf(written[1].Periodics[i].Name) = "e2e"
           /\ KindOf(written[1].Periodics[j].Name) = "e2enode"

\* C10: resources and cluster come from the test suite when it sets any of
\* them, else from the job when it sets any, else they are the defaults.
C10_Precedence ==
    \A p \in Emitted :
        LET suite == SuiteOf(p.Name)
            job == config.Jobs[p.Name]
            default == DefaultPeriodic(p.Name)
        IN  /\ ContainerOf(p).Resources =
                   IF suite.Resources # NoResources THEN suite.Resources
                   ELSE IF job.Resources # NoResources THEN job.Resources
                   ELSE ContainerOf(default).Resources
            /\ p.Cluster =
                   IF suite.Cluster # "" THEN suite.Cluster
                   ELSE IF job.Cluster # "" THEN job.Cluster
                   ELSE default.Cluster

-----------------------------------------------------------------------------
(* Claim C11: dashboards *)

\* the primary dashboard of a job for a version
PrimaryDashboard(job, version) ==
    IF job.ReleaseBlocking THEN "sig-release-" \o version \o "-blocking"
    ELSE IF job.ReleaseInforming THEN "sig-release-" \o version \o "-informing"
    ELSE "sig-release-generated"

\* the image axis a well-formed job name resolves to
ImageOf(jobName) ==
    MapGet(config.Images,
           FieldsOf(jobName)[IF KindOf(jobName) = "e2e" THEN 5 ELSE 4], NoImage)

\* <prefix>-<image key>-<k8s-version token>
PrefixedDashboard(jobName) ==
    LET f == FieldsOf(jobName)
        at == IF KindOf(jobName) = "e2e" THEN 5 ELSE 4
    IN  ImageOf(jobName).TestgridPrefix \o "-" \o f[at] \o "-" \o f[at + 1]

\* the version of the K8sVersion axis an e2e job name resolves to
VersionOf(jobName) ==
    LET token == FieldsOf(jobName)[6]
    IN  MapGet(config.K8SVersions, SubSeq(token, 4, Len(token)), NoK8SVersion).Version

\* the versions a primary dashboard can name
Versions == {config.K8SVersions[v].Version : v \in DOMAIN config.K8SVersions} \cup {""}

HasDashboards(p) == \E k \in DOMAIN p.Annotations : k = "testgrid-dashboards"

DashboardsOf(p) == p.Annotations["testgrid-dashboards"]

\* C11 as stated: the dashboards of an emitted Periodic are its primary
\* dashboard alone when the image has no testgrid prefix, for either job kind;
\* with a prefix an e2e job has the primary dashboard followed by the prefixed
\* one and an e2enode job the prefixed one alone.
C11_Dashboards ==
    \A p \in Emitted :
        LET job == config.Jobs[p.Name]
        IN  /\ HasDashboards(p)
            /\ IF ImageOf(p.Name).TestgridPrefix = ""
               THEN IF KindOf(p.Name) = "e2e"
                    THEN DashboardsOf(p) = PrimaryDashboard(job, VersionOf(p.Name))
                    ELSE \E v \in Versions : DashboardsOf(p) = PrimaryDashboard(job, v)
               ELSE IF KindOf(p.Name) = "e2e"
                    THEN DashboardsOf(p) =
                             Join(<<PrimaryDashboard(job, VersionOf(p.Name)),
                                    PrefixedDashboard(p.Name)>>, ", ")
                    ELSE DashboardsOf(p) = PrefixedDashboard(p.Name)

\* C11 as amended: an e2e job has its primary dashboard, followed by the
\* prefixed one when the image has a testgrid prefix; an e2enode job has the
\* prefixed dashboard alone when the image has a prefix, and no dashboards
\* annotation at all when it has none, whatever its release flags.
C11_DashboardsByKind ==
    \A p \in Emitted :
        LET job == config.Jobs[p.Name]
            prefix == ImageOf(p.Name).TestgridPrefix
        IN  IF KindOf(p.Name) = "e2e"
            THEN /\ HasDashboards(p)
                 /\ DashboardsOf(p) =
                        IF prefix = ""
                        THEN PrimaryDashboard(job, VersionOf(p.Name))
                        ELSE Join(<<PrimaryDashboard(job, VersionOf(p.Name)),
                                    PrefixedDashboard(p.Name)>>, ", ")
            ELSE IF prefix = ""
                 THEN ~HasDashboards(p)
                 ELSE HasDashboards(p) /\ DashboardsOf(p) = PrefixedDashboard(p.Name)

\* C11's case: a release-blocking e2e job on a prefixed image got both
\* dashboards, and a release-blocking e2enode job on an image without prefix
\* got none
C11_Witness ==
    /\ \E p \in Emitted :
           /\ KindOf(p.Name) = "e2e"
           /\ config.Jobs[p.Name].ReleaseBlocking
           /\ HasDashboards(p)
           /\ DashboardsOf(p) = "sig-release-1.29-blocking, google-gce-cos-k8sbeta"
    /\ \E p \in Emitted :
           /\ KindOf(p.Name) = "e2enode"
           /\ config.Jobs[p.Name].ReleaseBlocking
           /\ ImageOf(p.Name).TestgridPrefix = ""
           /\ ~HasDashboards(p)

-----------------------------------------------------------------------------
(* Claim C12: the order of the base layers *)

\* the layers of a job in the order Common, CloudProvider, Image, K8sVersion,
\* TestSuite, hash-substituted; an e2enode job has neither a cloud provider
\* nor a K8sVersion layer
LayerArgs(jobName) ==
    LET f == FieldsOf(jobName)
    IN  IF KindOf(jobName) = "e2e"
        THEN getArgs(jobName, config.Common.Args)
               \o getArgs(jobName, MapGet(config.CloudProviders, f[4], NoCloudProvider).Args)
               \o getArgs(jobName, MapGet(config.Images, f[5], NoImage).Args)
               \o getArgs(jobName, MapGet(config.K8SVersions,
                                          SubSeq(f[6], 4, Len(f[6])), NoK8SVersion).Args)
               \o getArgs(jobName, SuiteOf(jobName).Args)
        ELSE NodeBaseArgs(jobName)

\* the job's own override arguments, hash-substituted
OverrideArgs(jobName) == getArgs(jobName, config.Jobs[jobName].Args)

\* the arguments the K8sVersion axis holds for the version token of a job name
K8sAxisArgs(jobName) ==
    LET token == FieldsOf(jobName)[IF KindOf(jobName) = "e2e" THEN 6 ELSE 5]
    IN  getArgs(jobName, MapGet(config.K8SVersions,
                                SubSeq(token, 4, Len(token)), NoK8SVersion).Args)

\* the arguments the NodeK8sVersion axis holds for an e2enode job name
NodeK8sAxisArgs(jobName) ==
    LET token == FieldsOf(jobName)[5]
    IN  MapGet(config.NodeK8SVersions, SubSeq(token, 4, Len(token)),
               NoNodeK8SVersion).Args

Among(seq, a) == \E i \in DOMAIN seq : seq[i] = a

\* for an e2enode job the K8sVersion axis puts no argument into final
NoK8sAxisArgs(jobName, final) ==
    \A i \in DOMAIN K8sAxisArgs(jobName) :
        LET a == K8sAxisArgs(jobName)[i]
        IN  ~Among(LayerArgs(jobName) \o OverrideArgs(jobName)
                       \o NodeK8sAxisArgs(jobName), a)
                => ~Among(final, a)

\* the arguments of layer r of a job: 1 Common, 2 CloudProvider and Image,
\* 3 K8sVersion (e2e only), 4 TestSuite
LayerOf(jobName, r) ==
    LET f == FieldsOf(jobName)
        e2e == KindOf(jobName) = "e2e"
    IN  CASE r = 1 -> getArgs(jobName, config.Common.Args)
          [] r = 2 -> IF e2e
                      THEN getArgs(jobName,
                               MapGet(config.CloudProviders, f[4], NoCloudProvider).Args)
                             \o getArgs(jobName, MapGet(config.Images, f[5], NoImage).Args)
                      ELSE getArgs(jobName, MapGet(config.Images, f[4], NoImage).Args)
          [] r = 3 -> IF e2e THEN K8sAxisArgs(jobName) ELSE <<>>
          [] r = 4 -> getArgs(jobName, SuiteOf(jobName).Args)

\* the layers that carry entry a
RanksOf(jobName, a) == {r \in 1..4 : Among(LayerOf(jobName, r), a)}

\* entry a can only come from a later layer than entry b
LaterLayer(jobName, a, b) ==
    /\ RanksOf(jobName, a) # {} /\ RanksOf(jobName, b) # {}
    /\ \A ra \in RanksOf(jobName, a), rb \in RanksOf(jobName, b) : ra > rb

\* C12 as stated: in the final container arguments of any job, ahead of the
\* override entries, no entry of a later layer stands before an entry of an
\* earlier layer, the layers being Common, CloudProvider/Image, K8sVersion,
\* TestSuite, and the K8sVersion axis gives an e2enode job no argument.
C12_LayerOrder ==
    \A p \in Emitted :
        LET final == ContainerOf(p).Args
        IN  /\ \E k \in 0..Len(final) :
                   /\ \A i, j \in 1..k :
                          i < j => ~LaterLayer(p.Name, final[i], final[j])
                   /\ IsSubseq(SubSeq(final, k + 1, Len(final)), OverrideArgs(p.Name))
            /\ KindOf(p.Name) = "e2enode" => NoK8sAxisArgs(p.Name, final)

\* C12 as amended: the final arguments of an e2e job are surviving layer
\* entries in the order Common, CloudProvider, Image, K8sVersion, TestSuite,
\* then override entries; those of an e2enode job are the NodeK8sVersion
\* arguments and --root=/go/src, then the surviving entries of Common, Image,
\* TestSuite that do not contain --node-args= in that order, then the one
\* joined --node-args= entry if it survived, then override entries, with no
\* argument of the K8sVersion axis.
C12_LayerOrderByKind ==
    \A p \in Emitted :
        LET final == ContainerOf(p).Args
            layered == LayerArgs(p.Name)
            over == OverrideArgs(p.Name)
        IN  IF KindOf(p.Name) = "e2e"
            THEN \E k \in 0..Len(final) :
                     /\ IsSubseq(SubSeq(final, 1, k), layered)
                     /\ IsSubseq(SubSeq(final, k + 1, Len(final)), over)
            ELSE LET fixed == Append(NodeK8sAxisArgs(p.Name), "--root=/go/src")
                     rest == SubSeq(final, Len(fixed) + 1, Len(final))
                     given == NodeContaining(layered)
                     others == SelectSeq(layered, LAMBDA a : ~Contains(a, "--node-args="))
                     passed == IF given = <<>> THEN others
                               ELSE Append(others,
                                        TrimSpace("--node-args="
                                                      \o Join(ValuesOf(given), " ")))
                 IN  /\ Len(final) >= Len(fixed)
                     /\ SubSeq(final, 1, Len(fixed)) = fixed
                     /\ \E k \in 0..Len(rest) :
                            /\ IsSubseq(SubSeq(rest, 1, k), passed)
                            /\ IsSubseq(SubSeq(rest, k + 1, Len(rest)), over)
                     /\ NoK8sAxisArgs(p.Name, final)

\* C12's case: an e2enode job whose image argument an override displaced and
\* whose Common --node-args entry stands behind its test-suite arguments
C12_Witness ==
    \E p \in Emitted :
        LET final == ContainerOf(p).Args
        IN  /\ KindOf(p.Name) = "e2enode"
            /\ Among(config.Common.Args, "--node-args=--v=2")
            /\ ~Among(final, "--gcp-node-image=gci")
            /\ final[Len(final)] = "--gcp-node-image=custom"
            /\ \E i, j \in DOMAIN final :
                   /\ i < j
                   /\ final[i] = "--ginkgo-parallel=30"
                   /\ final[j] = "--node-args=--v=2"

=============================================================================
